---- MODULE Spec2Model ----
(***************************************************************************)
(* Model of the history-aware video analysis pipeline                      *)
(* (apps/utils/video_processor.py, apps/utils/result_manager.py).          *)
(*                                                                         *)
(* Python floats are IEEE-754 binary64.  A non-negative float is held as   *)
(* [ip |-> integer part, fr |-> binary digits after the point], with the   *)
(* trailing zero digits removed, so equal values have equal               *)
(* representations.  Division rounds to 53 significant bits, ties to even. *)
(***************************************************************************)
EXTENDS Integers, Sequences, FiniteSets, TLC

\* ------------------------------------------------------------------ bounds
\* Frame rates the decoder may report (cv2.CAP_PROP_FPS); 0 is "unreadable".
MaxFps == 5
\* Longest video, in decoded frames, of the sampler specification.
MaxFrameCount == 30
\* Largest sampling interval, in seconds.
MaxInterval == 3
\* Longest video, in decoded frames, of the pipeline specification.
MaxPipeFrames == 8
\* Largest chunk size of the pipeline specification.
MaxChunkSize == 3
\* Longest video, in decoded frames, of the thread-pool specification.
MaxPoolFrames == 3
\* Largest parallel_degree of the thread-pool specification.
MaxParallel == 2
\* Last second of the clock of the handler specification.
MaxClock == 2
\* Most presses of Process Video in the handler specification.
MaxRuns == 3

\* --------------------------------------------------------- float arithmetic
\* Significant bits of a binary64 mantissa.
MantissaBits == 53

Min(a, b) == IF a < b THEN a ELSE b

RECURSIVE BitLen(_)
\* Number of binary digits of the natural number q (0 for q = 0).
BitLen(q) == IF q = 0 THEN 0 ELSE 1 + BitLen(q \div 2)

RECURSIVE FracDigits(_, _, _)
\* The first k binary digits after the point of r/d, for 0 <= r < d.
FracDigits(r, d, k) ==
    IF k = 0 THEN << >>
    ELSE << (2 * r) \div d >> \o FracDigits((2 * r) % d, d, k - 1)

RECURSIVE FracRem(_, _, _)
\* The remainder left after k digits of r/d: (r * 2^k) mod d.
FracRem(r, d, k) == IF k = 0 THEN r ELSE FracRem((2 * r) % d, d, k - 1)

RECURSIVE LeadingZeros(_, _)
\* Zero digits after the point before the first one digit of r/d, 0 < r < d.
LeadingZeros(r, d) == IF 2 * r >= d THEN 0 ELSE 1 + LeadingZeros(2 * r, d)

RECURSIVE StripZeros(_)
StripZeros(ds) ==
    IF ds = << >> THEN ds
    ELSE IF ds[Len(ds)] = 0 THEN StripZeros(SubSeq(ds, 1, Len(ds) - 1))
    ELSE ds

RECURSIVE IncDigits(_)
\* Adds one unit in the last place to a digit string; the carry out of the
\* first digit is returned in c.
IncDigits(ds) ==
    IF ds = << >> THEN [c |-> 1, ds |-> << >>]
    ELSE IF ds[Len(ds)] = 0
         THEN [c |-> 0, ds |-> SubSeq(ds, 1, Len(ds) - 1) \o << 1 >>]
         ELSE LET up == IncDigits(SubSeq(ds, 1, Len(ds) - 1))
              IN  [c |-> up.c, ds |-> up.ds \o << 0 >>]

\* n / d in binary64 for naturals n and d > 0: the exact quotient rounded to
\* MantissaBits significant bits, ties to even.
FloatDiv(n, d) ==
    LET q    == n \div d
        r    == n % d
        k    == IF q > 0 THEN MantissaBits - BitLen(q)
                ELSE IF r > 0 THEN LeadingZeros(r, d) + MantissaBits
                ELSE 0
        ds   == FracDigits(r, d, k)
        rem  == FracRem(r, d, k)
        g    == (2 * rem) \div d
        st   == (2 * rem) % d > 0
        odd  == IF k > 0 THEN ds[k] = 1 ELSE q % 2 = 1
        up   == g = 1 /\ (st \/ odd)
        inc  == IncDigits(ds)
    IN  IF up THEN [ip |-> q + inc.c, fr |-> StripZeros(inc.ds)]
        ELSE [ip |-> q, fr |-> StripZeros(ds)]

\* x % m in binary64 for a float x >= 0 and a positive integer m: fmod is exact.
FloatMod(x, m) == [ip |-> x.ip % m, fr |-> x.fr]

Digit(ds, i) == IF i <= Len(ds) THEN ds[i] ELSE 0

\* x < y on floats.
FloatLess(x, y) ==
    \/ x.ip < y.ip
    \/ /\ x.ip = y.ip
       /\ \E i \in 1..Len(y.fr) :
            /\ Digit(x.fr, i) < y.fr[i]
            /\ \A j \in 1..(i - 1) : Digit(x.fr, j) = Digit(y.fr, j)

\* floor(x / m) for a float x >= 0 and a positive integer m.
SlotOf(x, m) == x.ip \div m

\* ------------------------------------------------ decimal text of numbers
RECURSIVE IntDigits(_)
\* Decimal digits of the natural number q.
IntDigits(q) ==
    IF q < 10 THEN << q >> ELSE IntDigits(q \div 10) \o << q % 10 >>

RECURSIVE DigitsInt(_)
\* The natural number a string of decimal digits denotes.
DigitsInt(ds) ==
    IF ds = << >> THEN 0
    ELSE 10 * DigitsInt(SubSeq(ds, 1, Len(ds) - 1)) + ds[Len(ds)]

NonZero(ds) == \E i \in 1..Len(ds) : ds[i] # 0

RECURSIVE HalveRange(_, _, _, _)
\* Digits lo..hi of (r + 0.ds) / 2: the digit at i is half of ds[i] plus ten
\* times the remainder the digit before it left.
HalveRange(r, ds, lo, hi) ==
    IF lo > hi THEN << >>
    ELSE IF lo = hi
         THEN << (10 * (IF lo = 1 THEN r ELSE ds[lo - 1] % 2) + ds[lo]) \div 2 >>
         ELSE HalveRange(r, ds, lo, (lo + hi) \div 2)
                 \o HalveRange(r, ds, (lo + hi) \div 2 + 1, hi)

\* Decimal digits after the point of (r + 0.ds) / 2, for r in {0, 1}.
HalveDec(r, ds) ==
    HalveRange(r, ds, 1, Len(ds))
        \o (IF (IF ds = << >> THEN r ELSE ds[Len(ds)] % 2) = 1
            THEN << 5 >> ELSE << >>)

RECURSIVE FracDecimalOver(_, _)
\* The exact decimal digits after the point of 0.bs + 0.acc / 2^Len(bs).
FracDecimalOver(bs, acc) ==
    IF bs = << >> \/ (acc = << >> /\ ~NonZero(bs)) THEN acc
    ELSE IF Len(bs) = 1 THEN HalveDec(bs[1], acc)
    ELSE FracDecimalOver(SubSeq(bs, 1, Len(bs) \div 2),
             FracDecimalOver(SubSeq(bs, Len(bs) \div 2 + 1, Len(bs)), acc))

\* The exact decimal digits after the point of the binary fraction 0.bs.
FracDecimal(bs) == FracDecimalOver(bs, << >>)

\* 2 * 0.ds in decimal: the digit before the point.
DoubleCarry(ds) == IF ds # << >> /\ ds[1] >= 5 THEN 1 ELSE 0

RECURSIVE DoubleDigits(_)
\* 2 * 0.ds in decimal: the digits after the point.
DoubleDigits(ds) ==
    IF ds = << >> THEN << >>
    ELSE << (2 * ds[1] + DoubleCarry(Tail(ds))) % 10 >> \o DoubleDigits(Tail(ds))

RECURSIVE Zeros(_)
\* A string of k zero digits.
Zeros(k) ==
    IF k <= 0 THEN << >>
    ELSE IF k = 1 THEN << 0 >>
    ELSE Zeros(k \div 2) \o Zeros(k - k \div 2)

RECURSIVE DecFracRem(_, _)
\* What is left of 0.ds after its first k binary digits, scaled by 2^k.
DecFracRem(ds, k) ==
    IF k = 0 \/ ds = << >> THEN ds
    ELSE IF k = 1 THEN DoubleDigits(ds)
    ELSE DecFracRem(DecFracRem(ds, k \div 2), k - k \div 2)

RECURSIVE DecFracBits(_, _)
\* The first k binary digits after the point of the decimal fraction 0.ds.
DecFracBits(ds, k) ==
    IF k = 0 THEN << >>
    ELSE IF ds = << >> THEN Zeros(k)
    ELSE IF k = 1 THEN << DoubleCarry(ds) >>
    ELSE DecFracBits(ds, k \div 2)
            \o DecFracBits(DecFracRem(ds, k \div 2), k - k \div 2)

RECURSIVE DecLeadingZeros(_)
\* Zero binary digits after the point before the first one digit of 0.ds # 0.
DecLeadingZeros(ds) ==
    IF DoubleCarry(ds) = 1 THEN 0 ELSE 1 + DecLeadingZeros(DoubleDigits(ds))

RECURSIVE DecIncDigits(_)
\* The digits of ds plus one unit in the last place, without the carry out.
DecIncDigits(ds) ==
    IF ds = << >> THEN << >>
    ELSE IF ds[Len(ds)] < 9
         THEN SubSeq(ds, 1, Len(ds) - 1) \o << ds[Len(ds)] + 1 >>
         ELSE DecIncDigits(SubSeq(ds, 1, Len(ds) - 1)) \o << 0 >>

\* Adds one unit in the last place to a string of decimal digits; the carry
\* out of the first digit is returned in c.
DecInc(ds) ==
    [c |-> IF \A i \in 1..Len(ds) : ds[i] = 9 THEN 1 ELSE 0,
     ds |-> DecIncDigits(ds)]

RECURSIVE FirstNonZero(_)
\* Index of the first digit that is not zero, Len(ds) + 1 if there is none.
FirstNonZero(ds) ==
    IF ds = << >> \/ ds[1] # 0 THEN 1 ELSE 1 + FirstNonZero(Tail(ds))

\* The float x written with n significant decimal digits (the exact value
\* rounded half to even) as the digits before and after the point.
RoundSig(x, n) ==
    LET whole == IntDigits(x.ip)
        all   == whole \o FracDecimal(x.fr)
        k     == FirstNonZero(all) + n - 1
        keep  == SubSeq(all, 1, Min(k, Len(all)))
        rest  == SubSeq(all, k + 1, Len(all))
        up    == /\ rest # << >>
                 /\ \/ rest[1] > 5
                    \/ /\ rest[1] = 5
                       /\ \/ NonZero(Tail(rest))
                          \/ keep # << >> /\ keep[Len(keep)] % 2 = 1
        inc   == IF up THEN DecInc(keep) ELSE [c |-> 0, ds |-> keep]
        ds    == (IF inc.c = 1 THEN << 1 >> ELSE << >>) \o inc.ds
        p     == Len(whole) + inc.c
        full  == ds \o Zeros(p - Len(ds))
        frac  == StripZeros(SubSeq(full, p + 1, Len(full)))
    IN  [int |-> SubSeq(full, 1, p),
         frac |-> IF frac = << >> THEN << 0 >> ELSE frac]

\* float(text): the decimal number int.frac rounded to MantissaBits
\* significant bits, ties to even.
ParseFloat(text) ==
    LET q    == DigitsInt(text.int)
        f    == StripZeros(text.frac)
        k    == IF q > 0 THEN MantissaBits - BitLen(q)
                ELSE IF f # << >> THEN DecLeadingZeros(f) + MantissaBits
                ELSE 0
        ds   == DecFracBits(f, k)
        rem  == DecFracRem(f, k)
        odd  == IF k > 0 THEN ds[k] = 1 ELSE q % 2 = 1
        up   == DoubleCarry(rem) = 1 /\ (NonZero(DoubleDigits(rem)) \/ odd)
        inc  == IncDigits(ds)
    IN  IF up THEN [ip |-> q + inc.c, fr |-> StripZeros(inc.ds)]
        ELSE [ip |-> q, fr |-> StripZeros(ds)]

\* Digits that always identify a binary64 value.
ReprMaxDigits == 17

RECURSIVE ShortestFrom(_, _)
ShortestFrom(x, n) ==
    IF n >= ReprMaxDigits \/ ParseFloat(RoundSig(x, n)) = x THEN RoundSig(x, n)
    ELSE ShortestFrom(x, n + 1)

\* float.__repr__ with six significant digits, as "%g" would write it.
FloatReprShort(x) == RoundSig(x, 6)

\* float.__repr__: the shortest decimal text that reads back as x.
FloatRepr(x) == ShortestFrom(x, 1)

\* ------------------------------------------------------------ program data
\* collections.deque(maxlen=5): the caption history keeps the last 5 captions.
HistoryMaxLen == 5

\* Captions the analysis capability may return.
Captions == {"a", "b"}

\* Chunk sizes a caller may pass: the function itself accepts any integer.
ChunkSizes == (-1)..MaxChunkSize

VARIABLES
    fps,            \* cap.get(cv2.CAP_PROP_FPS)
    frame_count,    \* number of frames cap.read() delivers before ret is False
    interval,       \* sampling interval in seconds
    chunk_size,     \* frames per chunk
    pc,             \* position of the run
    error,          \* the exception that ended the run, "none" otherwise
    frame_number,   \* extract_and_save_frames: index of the next decoded frame
    saved_frames,   \* extract_and_save_frames: the frames emitted so far
    frame_chunks,   \* list(chunkify(frames, chunk_size))
    chunk_idx,      \* 1-based index of the chunk the for loop is at
    image_infos,    \* uploaded frames of the current chunk
    history,        \* the caption deque
    all_metadata,   \* the chunk records accumulated so far
    call,           \* arguments of the analysis call in flight
    blobs,          \* names of the blobs the object store holds
    files,          \* files written by the run
    summary_input,  \* document handed to generate_final_report
    summary_calls,  \* number of calls of generate_final_report
    metadata_json,  \* text of the metadata file save_metadata wrote
    pool,           \* process_video_in_chunks: the futures of the thread pool
    session,        \* st.session_state of the Streamlit session
    now,            \* datetime.datetime.now(), in whole seconds
    results         \* the results base directory and the calls that made it

vars == << fps, frame_count, interval, chunk_size, pc, error, frame_number,
           saved_frames, frame_chunks, chunk_idx, image_infos, history,
           all_metadata, call, blobs, files, summary_input, summary_calls,
           metadata_json, pool, session, now, results >>

video  == << fps, frame_count, interval, chunk_size >>
sample == << frame_number, saved_frames >>
loop   == << frame_chunks, chunk_idx, image_infos, history, all_metadata, call >>
store  == << blobs, files, summary_input, summary_calls >>
other  == << metadata_json, pool, session >>
disk   == << now, results >>

\* No metadata file has been written by save_metadata.
NoFile == [exists |-> FALSE, text |-> [t |-> "array", items |-> << >>]]

\* The results base directory is empty and create_result_directory has not
\* been called: dirs are the directories in it, each with the time
\* os.path.getctime gives for it, tick the last such time given out, and
\* returned the values create_result_directory has returned, in call order.
NoResults == [tick |-> 0, dirs |-> {}, returned |-> << >>]

\* The thread pool of process_video_in_chunks is not in use.
NoPool == [degree |-> 0, futures |-> << >>, chunk_results |-> << >>]

NoCall == [chunk |-> 0, history |-> << >>, image_infos |-> << >>]

\* --------------------------------------------------------------- operators
\* current_time = frame_number / fps
CurrentTime(n, rate) == FloatDiv(n, rate)

\* if current_time % interval < 1.0 / fps
IsSaved(n, rate, T) ==
    FloatLess(FloatMod(CurrentTime(n, rate), T), FloatDiv(1, rate))

\* RangeLen with the count rounded down: a last, shorter step is lost.
RangeLenFloor(start, stop, step) ==
    IF step > 0
    THEN IF stop > start THEN (stop - start) \div step ELSE 0
    ELSE IF start > stop THEN (start - stop) \div (-step) ELSE 0

\* len(range(start, stop, step)) for step # 0.
RangeLen(start, stop, step) ==
    IF step > 0
    THEN IF stop > start THEN (stop - start + step - 1) \div step ELSE 0
    ELSE IF start > stop THEN (start - stop - step - 1) \div (-step) ELSE 0

\* lst[a:b] for 0 <= a <= b: the slice stops at the end of the list.
Slice(lst, a, b) == SubSeq(lst, a + 1, Min(b, Len(lst)))

\* list(chunkify(lst, size)) for size # 0:
\* for i in range(0, len(lst), size): yield lst[i:i+size]
Chunkify(lst, size) ==
    [k \in 1..RangeLen(0, Len(lst), size) |->
        Slice(lst, (k - 1) * size, (k - 1) * size + size)]

\* DequeAppend without the maxlen: nothing is ever dropped.
DequeAppendUnbounded(h, caption) == Append(h, caption)

\* history.append(caption) on a deque with maxlen: a full deque drops its
\* oldest entry.
DequeAppend(h, caption) ==
    IF Len(h) >= HistoryMaxLen THEN Tail(h) \o << caption >>
    ELSE Append(h, caption)

\* One entry of image_infos for an uploaded frame.
ImageInfo(frame) ==
    [url |-> << "images", frame.frame_number >>,
     frame_number |-> frame.frame_number,
     timestamp |-> frame.timestamp]

\* chunk_meta of process_video_with_history.
ChunkMeta(infos, caption) ==
    [video_filename |-> "video",
     frames |-> [j \in 1..Len(infos) |->
                    [frame_number |-> infos[j].frame_number,
                     timestamp |-> infos[j].timestamp,
                     frame_url_with_sas |-> infos[j].url]],
     chunk_caption |-> caption]

\* filtered_data of save_final_report: a deep copy without video_filename,
\* frame_number and frame_url_with_sas.
Redact(metadata) ==
    [i \in 1..Len(metadata) |->
        [frames |-> [j \in 1..Len(metadata[i].frames) |->
                        [timestamp |-> metadata[i].frames[j].timestamp]],
         chunk_caption |-> metadata[i].chunk_caption]]

\* ---------------------------------------------------- json.dump / json.load
\* JSON text is held token by token: a string, a number literal (the digits
\* before the point and, when it has a point, the digits after it), an array
\* of values, or an object as its members in the order they were written.
JsonString(s) == [t |-> "string", v |-> s]

JsonNumber(int, frac) == [t |-> "number", int |-> int, frac |-> frac]

\* An int is written as its decimal digits.
JsonInt(n) == JsonNumber(IntDigits(n), << >>)

NumberOfRepr(r) == JsonNumber(r.int, r.frac)

\* A float is written as float.__repr__ gives it.
JsonFloat(x) == NumberOfRepr(FloatRepr(x))

JsonArray(items) == [t |-> "array", items |-> items]

JsonObject(members) == [t |-> "object", members |-> members]

\* json.dump of one frame entry of a chunk record.
DumpFrame(frame) ==
    JsonObject(<< << "frame_number", JsonInt(frame.frame_number) >>,
                  << "timestamp", JsonFloat(frame.timestamp) >>,
                  << "frame_url_with_sas", JsonString(frame.frame_url_with_sas) >> >>)

\* json.dump of one chunk record.
DumpRecord(record) ==
    JsonObject(<< << "video_filename", JsonString(record.video_filename) >>,
                  << "frames",
                     JsonArray([j \in 1..Len(record.frames) |->
                                   DumpFrame(record.frames[j])]) >>,
                  << "chunk_caption", JsonString(record.chunk_caption) >> >>)

\* json.dump(metadata, f, ensure_ascii=False, indent=4) of save_metadata.
JsonDump(metadata) ==
    JsonArray([i \in 1..Len(metadata) |-> DumpRecord(metadata[i])])

\* The member of an object that json.load keeps for key k: the last one.
MemberOf(members, k) ==
    members[CHOOSE i \in 1..Len(members) :
                /\ members[i][1] = k
                /\ \A later \in (i + 1)..Len(members) : members[later][1] # k][2]

RECURSIVE JsonLoad(_)
\* json.load: a number literal without a point is an int, with a point a
\* float; an array is a list and an object a dict.
JsonLoad(j) ==
    CASE j.t = "string" -> j.v
      [] j.t = "number" ->
            IF j.frac = << >> THEN DigitsInt(j.int)
            ELSE ParseFloat([int |-> j.int, frac |-> j.frac])
      [] j.t = "array" -> [i \in 1..Len(j.items) |-> JsonLoad(j.items[i])]
      [] j.t = "object" ->
            [k \in {j.members[i][1] : i \in 1..Len(j.members)} |->
                JsonLoad(MemberOf(j.members, k))]

\* ------------------------------------------------------ result directories
\* Names of the files a run writes into its result directory.
ResultFiles == {"video.mp4", "frames/metadata.json", "metadata.json", "report.md"}

\* os.path.join(base_path, timestamp), the timestamp being
\* now().strftime("%Y%m%d_%H%M%S"): one name per second.
DirName(second) == "results/" \o ToString(second)

DirExists(res, name) == \E d \in res.dirs : d.name = name

\* create_result_directory: the directory named after the current second is
\* made unless it exists, and its path is returned.
create_result_directory(res, second) ==
    IF DirExists(res, DirName(second))
    THEN [res EXCEPT !.returned = Append(@, DirName(second))]
    ELSE [tick     |-> res.tick + 1,
          dirs     |-> res.dirs \cup {[name |-> DirName(second),
                                       ctime |-> res.tick + 1]},
          returned |-> Append(res.returned, DirName(second))]

RECURSIVE SortNewestFirst(_)
\* result_dirs.sort(key=getctime, reverse=True)
SortNewestFirst(dirs) ==
    IF dirs = {} THEN << >>
    ELSE LET newest == CHOOSE d \in dirs : \A e \in dirs : e.ctime <= d.ctime
         IN  << newest.name >> \o SortNewestFirst(dirs \ {newest})

\* get_all_result_dirs: the directories of the base path, newest first.
get_all_result_dirs == SortNewestFirst(results.dirs)

\* ------------------------------------------------------------------- Init
Start ==
    /\ pc = "extract"
    /\ error = "none"
    /\ frame_number = 0
    /\ saved_frames = << >>
    /\ frame_chunks = << >>
    /\ chunk_idx = 0
    /\ image_infos = << >>
    /\ history = << >>
    /\ all_metadata = << >>
    /\ call = NoCall
    /\ blobs = {}
    /\ files = {}
    /\ summary_input = << >>
    /\ summary_calls = 0
    /\ metadata_json = NoFile
    /\ session = [processing |-> FALSE, uploaded_video_path |-> "None",
                  current_result_dir |-> "None"]
    /\ now = 0
    /\ results = NoResults

Init ==
    /\ fps \in 0..MaxFps
    /\ interval \in 1..MaxInterval
    /\ frame_count \in 0..MaxPipeFrames
    /\ chunk_size \in ChunkSizes
    /\ pool = NoPool
    /\ Start

InitSampler ==
    /\ fps \in 0..MaxFps
    /\ interval \in 1..MaxInterval
    /\ frame_count \in 0..MaxFrameCount
    /\ chunk_size \in ChunkSizes
    /\ pool = NoPool
    /\ Start

\* process_video_in_chunks(video_path, output_dir, interval, parallel_degree,
\* chunk_size)
InitParallel ==
    /\ fps \in 0..MaxFps
    /\ interval \in 1..MaxInterval
    /\ frame_count \in 0..MaxPoolFrames
    /\ chunk_size \in ChunkSizes
    /\ \E d \in 1..MaxParallel : pool = [NoPool EXCEPT !.degree = d]
    /\ Start

\* ------------------------------------------- extract_and_save_frames
\* One pass of the while loop with ret True and a non-zero frame rate.
ReadFrame ==
    /\ pc = "extract"
    /\ frame_number < frame_count
    /\ fps > 0
    /\ saved_frames' =
          IF IsSaved(frame_number, fps, interval)
          THEN Append(saved_frames,
                      [frame_number |-> frame_number,
                       timestamp |-> CurrentTime(frame_number, fps)])
          ELSE saved_frames
    /\ frame_number' = frame_number + 1
    /\ UNCHANGED << video, pc, error, loop, store >>
    /\ UNCHANGED other
    /\ UNCHANGED disk

\* frame_number / fps with fps = 0.0 raises ZeroDivisionError.
ReadFrameZeroRate ==
    /\ pc = "extract"
    /\ frame_number < frame_count
    /\ fps = 0
    /\ pc' = "raised"
    /\ error' = "ZeroDivisionError"
    /\ UNCHANGED << video, sample, loop, store >>
    /\ UNCHANGED other
    /\ UNCHANGED disk

\* ret is False: the loop breaks and saved_frames is returned.
ExtractReturns ==
    /\ pc = "extract"
    /\ frame_number = frame_count
    /\ pc' = "partition"
    /\ UNCHANGED << video, error, sample, loop, store >>
    /\ UNCHANGED other
    /\ UNCHANGED disk

\* ------------------------------------------- process_video_with_history
\* frame_chunks = list(chunkify(frames, chunk_size)); history and
\* all_metadata are created empty; the for loop starts (or is skipped).
Partition ==
    /\ pc = "partition"
    /\ chunk_size # 0
    /\ frame_chunks' = Chunkify(saved_frames, chunk_size)
    /\ history' = << >>
    /\ all_metadata' = << >>
    /\ image_infos' = << >>
    /\ IF frame_chunks' = << >>
       THEN pc' = "write" /\ chunk_idx' = 0
       ELSE pc' = "upload" /\ chunk_idx' = 1
    /\ UNCHANGED << video, error, sample, call, store >>
    /\ UNCHANGED other
    /\ UNCHANGED disk

\* range(0, len(lst), 0) raises ValueError.
PartitionZeroStep ==
    /\ pc = "partition"
    /\ chunk_size = 0
    /\ pc' = "raised"
    /\ error' = "ValueError"
    /\ UNCHANGED << video, sample, loop, store >>
    /\ UNCHANGED other
    /\ UNCHANGED disk

\* upload_to_blob of the next frame of the chunk succeeds.
UploadFrame ==
    /\ pc = "upload"
    /\ Len(image_infos) < Len(frame_chunks[chunk_idx])
    /\ LET frame == frame_chunks[chunk_idx][Len(image_infos) + 1]
       IN  /\ blobs' = blobs \cup { << "images", frame.frame_number >> }
           /\ image_infos' = Append(image_infos, ImageInfo(frame))
    /\ UNCHANGED << video, pc, error, sample, frame_chunks, chunk_idx,
                    history, all_metadata, call, files, summary_input,
                    summary_calls >>
    /\ UNCHANGED other
    /\ UNCHANGED disk

\* upload_to_blob of the next frame raises.
UploadFrameFails ==
    /\ pc = "upload"
    /\ Len(image_infos) < Len(frame_chunks[chunk_idx])
    /\ pc' = "raised"
    /\ error' = "FrameUploadError"
    /\ UNCHANGED << video, sample, loop, store >>
    /\ UNCHANGED other
    /\ UNCHANGED disk

\* CallAnalysis issued as soon as one frame of the chunk has been uploaded.
CallAnalysisEarly ==
    /\ pc = "upload"
    /\ Len(image_infos) >= 1
    /\ call' = [chunk |-> chunk_idx, history |-> history,
                image_infos |-> image_infos]
    /\ pc' = "analyze"
    /\ UNCHANGED << video, error, sample, frame_chunks, chunk_idx,
                    image_infos, history, all_metadata, store, other >>
    /\ UNCHANGED disk

\* create_caption_by_gpt_with_history(image_infos, list(history), task_name)
\* is called once the inner loop has uploaded every frame of the chunk.
CallAnalysis ==
    /\ pc = "upload"
    /\ Len(image_infos) = Len(frame_chunks[chunk_idx])
    /\ call' = [chunk |-> chunk_idx, history |-> history,
                image_infos |-> image_infos]
    /\ pc' = "analyze"
    /\ UNCHANGED << video, error, sample, frame_chunks, chunk_idx,
                    image_infos, history, all_metadata, store >>
    /\ UNCHANGED other
    /\ UNCHANGED disk

\* AnalysisReturns with the history append left out.
AnalysisReturnsNoAppend ==
    /\ pc = "analyze"
    /\ \E caption \in Captions :
          all_metadata' = Append(all_metadata, ChunkMeta(image_infos, caption))
    /\ history' = history
    /\ image_infos' = << >>
    /\ call' = NoCall
    /\ IF chunk_idx < Len(frame_chunks)
       THEN pc' = "upload" /\ chunk_idx' = chunk_idx + 1
       ELSE pc' = "write" /\ chunk_idx' = chunk_idx
    /\ UNCHANGED << video, error, sample, frame_chunks, store >>
    /\ UNCHANGED other
    /\ UNCHANGED disk

\* The call returns a caption: the record is compiled, the caption appended
\* to history and the record to all_metadata; the loop moves on.
AnalysisReturns ==
    /\ pc = "analyze"
    /\ \E caption \in Captions :
          /\ history' = DequeAppend(history, caption)
          /\ all_metadata' = Append(all_metadata, ChunkMeta(image_infos, caption))
    /\ image_infos' = << >>
    /\ call' = NoCall
    /\ IF chunk_idx < Len(frame_chunks)
       THEN pc' = "upload" /\ chunk_idx' = chunk_idx + 1
       ELSE pc' = "write" /\ chunk_idx' = chunk_idx
    /\ UNCHANGED << video, error, sample, frame_chunks, store >>
    /\ UNCHANGED other
    /\ UNCHANGED disk

\* AnalysisFails with a placeholder caption put into history for the chunk.
AnalysisFailsPlaceholder ==
    /\ pc = "analyze"
    /\ pc' = "raised"
    /\ error' = "AnalysisCallError"
    /\ history' = DequeAppend(history, "")
    /\ UNCHANGED << video, sample, frame_chunks, chunk_idx, image_infos,
                    all_metadata, call, store >>
    /\ UNCHANGED other
    /\ UNCHANGED disk

\* The call raises.
AnalysisFails ==
    /\ pc = "analyze"
    /\ pc' = "raised"
    /\ error' = "AnalysisCallError"
    /\ UNCHANGED << video, sample, loop, store >>
    /\ UNCHANGED other
    /\ UNCHANGED disk

\* json.dump(all_metadata) into output_dir.
WriteMetadataJson ==
    /\ pc = "write"
    /\ files' = files \cup { "frames/metadata.json" }
    /\ pc' = "upload_metadata"
    /\ UNCHANGED << video, error, sample, loop, blobs, summary_input,
                    summary_calls >>
    /\ UNCHANGED other
    /\ UNCHANGED disk

\* upload_to_blob(metadata_json_path, ...) succeeds; all_metadata is returned.
UploadMetadata ==
    /\ pc = "upload_metadata"
    /\ blobs' = blobs \cup { << "metadata", 0 >> }
    /\ pc' = "returned"
    /\ UNCHANGED << video, error, sample, loop, files, summary_input,
                    summary_calls >>
    /\ UNCHANGED other
    /\ UNCHANGED disk

UploadMetadataFails ==
    /\ pc = "upload_metadata"
    /\ pc' = "raised"
    /\ error' = "MetadataUploadError"
    /\ UNCHANGED << video, sample, loop, store >>
    /\ UNCHANGED other
    /\ UNCHANGED disk

\* ----------------------------------------------------- result_manager
\* save_metadata(metadata, result_dir, video_filename)
SaveMetadata ==
    /\ pc = "returned"
    /\ files' = files \cup { "metadata.json" }
    /\ metadata_json' = [exists |-> TRUE, text |-> JsonDump(all_metadata)]
    /\ pc' = "saved"
    /\ UNCHANGED << video, error, sample, loop, blobs, summary_input,
                    summary_calls, pool, session >>
    /\ UNCHANGED disk

\* load_metadata of the file save_metadata wrote: None when it is missing.
load_metadata ==
    IF metadata_json.exists THEN JsonLoad(metadata_json.text) ELSE "None"

\* SaveFinalReport without the deep copy: the fields are popped from the
\* caller's records.
SaveFinalReportInPlace ==
    /\ pc = "saved"
    /\ all_metadata' = Redact(all_metadata)
    /\ summary_input' = Redact(all_metadata)
    /\ summary_calls' = summary_calls + 1
    /\ pc' = "summarize"
    /\ UNCHANGED << video, error, sample, frame_chunks, chunk_idx,
                    image_infos, history, call, blobs, files, other >>
    /\ UNCHANGED disk

\* SaveFinalReport with the summarization call made a second time.
SaveFinalReportTwice ==
    /\ pc = "saved"
    /\ summary_input' = Redact(all_metadata)
    /\ summary_calls' = summary_calls + 2
    /\ pc' = "summarize"
    /\ UNCHANGED << video, error, sample, loop, blobs, files >>
    /\ UNCHANGED other
    /\ UNCHANGED disk

\* save_final_report: the filtered copy is built and generate_final_report
\* is called with it.
SaveFinalReport ==
    /\ pc = "saved"
    /\ summary_input' = Redact(all_metadata)
    /\ summary_calls' = summary_calls + 1
    /\ pc' = "summarize"
    /\ UNCHANGED << video, error, sample, loop, blobs, files >>
    /\ UNCHANGED other
    /\ UNCHANGED disk

\* generate_final_report returns: the report file is written.
ReportReturns ==
    /\ pc = "summarize"
    /\ files' = files \cup { "report.md" }
    /\ pc' = "finished"
    /\ UNCHANGED << video, error, sample, loop, blobs, summary_input,
                    summary_calls >>
    /\ UNCHANGED other
    /\ UNCHANGED disk

\* ReportFails that also removes the metadata file of the run.
ReportFailsRollsBack ==
    /\ pc = "summarize"
    /\ pc' = "raised"
    /\ error' = "SynthesisError"
    /\ files' = files \ { "metadata.json" }
    /\ metadata_json' = NoFile
    /\ UNCHANGED << video, sample, loop, blobs, summary_input, summary_calls,
                    pool, session >>
    /\ UNCHANGED disk

\* generate_final_report raises: no report file is written.
ReportFails ==
    /\ pc = "summarize"
    /\ pc' = "raised"
    /\ error' = "SynthesisError"
    /\ UNCHANGED << video, sample, loop, store >>
    /\ UNCHANGED other
    /\ UNCHANGED disk

\* ------------------------------------------- process_video_in_chunks
\* The future of a chunk that has been submitted and not started.
Pending == [state |-> "pending", infos |-> << >>, data |-> << >>,
            collected |-> FALSE]

Running(futures) == {i \in 1..Len(futures) : futures[i].state \in {"upload", "caption"}}
Finished(futures) == {i \in 1..Len(futures) : futures[i].state \in {"done", "failed"}}

\* frame_chunks = list(chunkify(frames, chunk_size)); every chunk is
\* submitted to the executor.
SubmitChunks ==
    /\ pc = "partition"
    /\ chunk_size # 0
    /\ frame_chunks' = Chunkify(saved_frames, chunk_size)
    /\ pool' = [pool EXCEPT !.futures = [i \in 1..Len(frame_chunks') |-> Pending],
                            !.chunk_results = << >>]
    /\ pc' = "pool"
    /\ UNCHANGED << video, error, sample, chunk_idx, image_infos, history,
                    all_metadata, call, store, metadata_json, session >>
    /\ UNCHANGED disk

\* A free worker thread takes the oldest submitted chunk and starts
\* process_frame_chunk on it.
TaskStarts ==
    /\ pc = "pool"
    /\ Cardinality(Running(pool.futures)) < pool.degree
    /\ \E i \in 1..Len(pool.futures) :
          /\ pool.futures[i].state = "pending"
          /\ \A j \in 1..(i - 1) : pool.futures[j].state # "pending"
          /\ pool' = [pool EXCEPT !.futures[i].state = "upload"]
    /\ UNCHANGED << video, pc, error, sample, loop, store, metadata_json,
                    session >>
    /\ UNCHANGED disk

\* process_frame_chunk: upload_to_blob of the next frame succeeds; after the
\* last frame create_caption_by_gpt_multi(image_infos) is called.
TaskUploadsFrame ==
    /\ pc = "pool"
    /\ \E i \in 1..Len(pool.futures) :
          LET f     == pool.futures[i]
              frame == frame_chunks[i][Len(f.infos) + 1]
              infos == Append(f.infos, ImageInfo(frame))
          IN  /\ f.state = "upload"
              /\ blobs' = blobs \cup { << "images", frame.frame_number >> }
              /\ pool' = [pool EXCEPT
                    !.futures[i].infos = infos,
                    !.futures[i].state =
                        IF Len(infos) = Len(frame_chunks[i]) THEN "caption"
                        ELSE "upload"]
    /\ UNCHANGED << video, pc, error, sample, loop, files, summary_input,
                    summary_calls, metadata_json, session >>
    /\ UNCHANGED disk

\* process_frame_chunk raises: an upload or the caption call failed.
TaskFails ==
    /\ pc = "pool"
    /\ \E i \in Running(pool.futures) :
          pool' = [pool EXCEPT !.futures[i].state = "failed"]
    /\ UNCHANGED << video, pc, error, sample, loop, store, metadata_json,
                    session >>
    /\ UNCHANGED disk

\* create_caption_by_gpt_multi returns; process_frame_chunk returns the
\* chunk metadata.
TaskReturns ==
    /\ pc = "pool"
    /\ \E i \in 1..Len(pool.futures), caption \in Captions :
          /\ pool.futures[i].state = "caption"
          /\ pool' = [pool EXCEPT
                !.futures[i].state = "done",
                !.futures[i].data = << ChunkMeta(pool.futures[i].infos, caption) >>]
    /\ UNCHANGED << video, pc, error, sample, loop, store, metadata_json,
                    session >>
    /\ UNCHANGED disk

\* as_completed yields a finished future: its result is appended to
\* chunk_results, or its exception is printed.
CollectFuture ==
    /\ pc = "pool"
    /\ \E i \in Finished(pool.futures) :
          /\ ~pool.futures[i].collected
          /\ pool' = [pool EXCEPT
                !.futures[i].collected = TRUE,
                !.chunk_results =
                    IF pool.futures[i].state = "done"
                    THEN pool.chunk_results \o pool.futures[i].data
                    ELSE pool.chunk_results]
    /\ UNCHANGED << video, pc, error, sample, loop, store, metadata_json,
                    session >>
    /\ UNCHANGED disk

\* Every future has been yielded: json.dump(chunk_results) into output_dir.
WritePoolMetadata ==
    /\ pc = "pool"
    /\ \A i \in 1..Len(pool.futures) : pool.futures[i].collected
    /\ files' = files \cup { "frames/metadata.json" }
    /\ pc' = "upload_metadata"
    /\ UNCHANGED << video, error, sample, loop, blobs, summary_input,
                    summary_calls, other >>
    /\ UNCHANGED disk

\* ------------------------------------------- app.py: Process Video handler
\* The page is rendered and a file has been chosen; no run is in progress.
InitHandler ==
    /\ fps \in 0..MaxFps
    /\ interval \in 1..MaxInterval
    /\ frame_count \in 0..MaxPipeFrames
    /\ chunk_size \in ChunkSizes
    /\ pc = "idle"
    /\ error = "none"
    /\ frame_number = 0
    /\ saved_frames = << >>
    /\ frame_chunks = << >>
    /\ chunk_idx = 0
    /\ image_infos = << >>
    /\ history = << >>
    /\ all_metadata = << >>
    /\ call = NoCall
    /\ blobs = {}
    /\ files = {}
    /\ summary_input = << >>
    /\ summary_calls = 0
    /\ metadata_json = NoFile
    /\ pool = NoPool
    /\ session = [processing |-> FALSE, uploaded_video_path |-> "None",
                  current_result_dir |-> "None"]
    /\ now = 0
    /\ results = NoResults

\* The Process Video button is pressed while processing is False: the result
\* directory is created and the processing flag set.  files holds the
\* temporary files and the content of the result directory of the run.
ClickProcessVideo ==
    /\ pc = "idle"
    /\ ~session.processing
    /\ Len(results.returned) < MaxRuns
    /\ results' = create_result_directory(results, now)
    /\ files' = IF DirExists(results, DirName(now)) THEN files
                ELSE files \ ResultFiles
    /\ session' = [session EXCEPT !.current_result_dir = DirName(now),
                                  !.processing = TRUE]
    /\ pc' = "temp_file"
    /\ UNCHANGED << video, error, sample, loop, blobs, summary_input,
                    summary_calls, metadata_json, pool, now >>

\* A second of the clock passes.
SecondPasses ==
    /\ now < MaxClock
    /\ now' = now + 1
    /\ UNCHANGED << video, pc, error, sample, loop, store, other, results >>

\* The script run of the handler has ended (st.stop, the except clause ran to
\* its end, or the run was replaced): the script runs again and the page is
\* rendered.
ScriptReruns ==
    /\ pc \in {"stopped", "raised", "interrupted"}
    /\ pc' = "idle"
    /\ error' = "none"
    /\ UNCHANGED << video, sample, loop, store, other, disk >>

\* The user interacts with the page while the handler runs: the next
\* Streamlit call of the handler (st.toast, st.write) raises the script
\* control exception of the rerun.  It is not an Exception, so the except
\* clause does not run and the session state stays as it is.
ScriptInterrupted ==
    /\ pc \in {"temp_file", "copy", "process"}
    /\ pc' = "interrupted"
    /\ UNCHANGED << video, error, sample, loop, store, other, disk >>

\* The Cancel Processing button, rendered while processing is True: the
\* temporary file is removed if its path is known and it exists, the flag is
\* reset and st.rerun() renders the page again.
CancelProcessing ==
    /\ pc = "idle"
    /\ session.processing
    /\ LET known == session.uploaded_video_path # "None"
                       /\ session.uploaded_video_path \in files
       IN  /\ files' = IF known THEN files \ { session.uploaded_video_path }
                       ELSE files
           /\ session' = [session EXCEPT
                 !.uploaded_video_path = IF known THEN "None" ELSE @,
                 !.processing = FALSE]
    /\ UNCHANGED << video, pc, error, sample, loop, blobs, summary_input,
                    summary_calls, metadata_json, pool, disk >>

\* create_temporary_file returns the path of the temporary copy.
CreateTemporaryFile ==
    /\ pc = "temp_file"
    /\ files' = files \cup { "tmp/video.mp4" }
    /\ session' = [session EXCEPT !.uploaded_video_path = "tmp/video.mp4"]
    /\ pc' = "copy"
    /\ UNCHANGED << video, error, sample, loop, blobs, summary_input,
                    summary_calls, metadata_json, pool >>
    /\ UNCHANGED disk

\* create_temporary_file returns None (it removed what it had written):
\* the flag is reset and st.stop() ends the script run.
CreateTemporaryFileFails ==
    /\ pc = "temp_file"
    /\ session' = [session EXCEPT !.processing = FALSE]
    /\ pc' = "stopped"
    /\ UNCHANGED << video, error, sample, loop, store, metadata_json, pool >>
    /\ UNCHANGED disk

\* copy_file_with_progress copies the video into the result directory.
CopyVideo ==
    /\ pc = "copy"
    /\ files' = files \cup { "video.mp4" }
    /\ pc' = "process"
    /\ UNCHANGED << video, error, sample, loop, blobs, summary_input,
                    summary_calls, other >>
    /\ UNCHANGED disk

\* copy_file_with_progress returns False, before or after it has opened the
\* destination file: the temporary file is removed, the flag reset and
\* st.stop() ends the script run.
CopyVideoFails ==
    /\ pc = "copy"
    /\ \E partial \in SUBSET { "video.mp4" } :
          files' = (files \ { "tmp/video.mp4" }) \cup partial
    /\ session' = [session EXCEPT !.processing = FALSE]
    /\ pc' = "stopped"
    /\ UNCHANGED << video, error, sample, loop, blobs, summary_input,
                    summary_calls, metadata_json, pool >>
    /\ UNCHANGED disk

\* ProcessVideoRaises with an except clause that leaves the flag set.
ProcessVideoRaisesKeepsFlag ==
    /\ pc = "process"
    /\ error' = "TypeError"
    /\ files' = IF session.uploaded_video_path # "None"
                THEN files \ { session.uploaded_video_path } ELSE files
    /\ session' = [session EXCEPT !.uploaded_video_path = "None"]
    /\ pc' = "raised"
    /\ UNCHANGED << video, sample, loop, blobs, summary_input, summary_calls,
                    metadata_json, pool, disk >>

\* process_video_with_history(..., custom_analysis_prompt=...) is called with
\* a keyword the function does not take: TypeError.  The except clause
\* removes the temporary file and resets the session state.
ProcessVideoRaises ==
    /\ pc = "process"
    /\ error' = "TypeError"
    /\ files' = IF session.uploaded_video_path # "None"
                THEN files \ { session.uploaded_video_path } ELSE files
    /\ session' = [session EXCEPT !.uploaded_video_path = "None",
                                  !.processing = FALSE]
    /\ pc' = "raised"
    /\ UNCHANGED << video, sample, loop, blobs, summary_input, summary_calls,
                    metadata_json, pool >>
    /\ UNCHANGED disk

\* ---------------------------------------------------------- specifications
NextSampler ==
    \/ ReadFrame
    \/ ReadFrameZeroRate
    \/ ExtractReturns
    \/ Partition
    \/ PartitionZeroStep

Next ==
    \/ NextSampler
    \/ UploadFrame
    \/ UploadFrameFails
    \/ CallAnalysis
    \/ AnalysisReturns
    \/ AnalysisFails
    \/ WriteMetadataJson
    \/ UploadMetadata
    \/ UploadMetadataFails
    \/ SaveMetadata
    \/ SaveFinalReport
    \/ ReportReturns
    \/ ReportFails

\* A whole run: sampling, the chunk loop, metadata and report.
Spec == Init /\ [][Next]_vars

\* Sampling and partitioning alone, on longer videos.
SpecSampler == InitSampler /\ [][NextSampler]_vars

NextParallel ==
    \/ ReadFrame
    \/ ReadFrameZeroRate
    \/ ExtractReturns
    \/ SubmitChunks
    \/ PartitionZeroStep
    \/ TaskStarts
    \/ TaskUploadsFrame
    \/ TaskFails
    \/ TaskReturns
    \/ CollectFuture
    \/ WritePoolMetadata
    \/ UploadMetadata
    \/ UploadMetadataFails

NextHandler ==
    \/ ClickProcessVideo
    \/ SecondPasses
    \/ ScriptReruns
    \/ ScriptInterrupted
    \/ CancelProcessing
    \/ CreateTemporaryFile
    \/ CreateTemporaryFileFails
    \/ CopyVideo
    \/ CopyVideoFails
    \/ ProcessVideoRaises

\* Runs started by the Process Video button of app.py in one session.
SpecHandler == InitHandler /\ [][NextHandler]_vars

\* A run of the thread-pool entry point process_video_in_chunks.
SpecParallel == InitParallel /\ [][NextParallel]_vars

\* ------------------------------------------------------------- properties
FrameNumbers(fs) == [j \in 1..Len(fs) |-> fs[j].frame_number]

\* Record i of the document is the record of chunk i of the partition.
IsRecordOf(record, chunk) ==
    /\ FrameNumbers(record.frames) = FrameNumbers(chunk)
    /\ \A j \in 1..Len(chunk) : record.frames[j].timestamp = chunk[j].timestamp

\* The captions of records from..to of the document, in order.
CaptionsOf(doc, from, to) ==
    [i \in 1..(to - from + 1) |-> doc[from + i - 1].chunk_caption]

Max(a, b) == IF a > b THEN a ELSE b

\* The run was ended by the failure of a frame upload or of the analysis call
\* of chunk chunk_idx.
ChunkFailed ==
    pc = "raised" /\ error \in {"FrameUploadError", "AnalysisCallError"}

\* C1: after k chunks have been processed the history has length min(k, 5)
\* and holds the captions of the min(k, 5) most recent chunks, oldest first;
\* it never exceeds 5 entries and is empty when the chunk loop starts.
C1_HistoryBound ==
    LET k == Len(all_metadata)
    IN  /\ Len(history) <= 5
        /\ Len(history) = Min(k, 5)
        /\ history = CaptionsOf(all_metadata, k - Min(k, 5) + 1, k)
        /\ \A i \in 1..k : IsRecordOf(all_metadata[i], frame_chunks[i])
        /\ (pc \in {"upload", "analyze"} => k = chunk_idx - 1)
        /\ (pc \in {"extract", "partition"} => history = << >>)

\* C1 witness: seven chunks processed, the history holds five captions.
C1_Witness == Len(all_metadata) = 7 /\ Len(history) = 5 /\ pc = "upload"

\* C2: while the analysis call of chunk k is in flight, the captions of
\* chunks 1..k-1 have all been appended, and the history passed to the call
\* is the captions of chunks max(1, k-5)..k-1 in chunk order.
C2_StrictOrdering ==
    pc = "analyze" =>
        LET k == call.chunk
        IN  /\ k = chunk_idx
            /\ Len(all_metadata) = k - 1
            /\ \A i \in 1..(k - 1) : IsRecordOf(all_metadata[i], frame_chunks[i])
            /\ call.history = CaptionsOf(all_metadata, Max(1, k - 5), k - 1)
            /\ Len(call.history) = Min(k - 1, 5)

\* C2 witness: the call of chunk 7 is in flight with five history entries,
\* and the caption of chunk 1 differs from that of chunk 2.
C2_Witness ==
    /\ pc = "analyze"
    /\ call.chunk = 7
    /\ Len(call.history) = 5
    /\ all_metadata[1].chunk_caption # all_metadata[2].chunk_caption
    /\ call.history[1] = all_metadata[2].chunk_caption

\* C3: a step inside the processing of chunk k that does not complete it
\* (an upload, the issue of the call, a failure) leaves history and the
\* document as they were after chunk k-1, and when chunk k has failed the
\* document holds the records of chunks 1..k-1 and nothing of chunk k.
C3_ChunkAtomicity ==
    /\ [][ (pc \in {"upload", "analyze"} /\ pc' \in {"upload", "analyze", "raised"}
            /\ chunk_idx' = chunk_idx)
           => (history' = history /\ all_metadata' = all_metadata) ]_vars
    /\ [](ChunkFailed =>
            /\ Len(all_metadata) = chunk_idx - 1
            /\ \A i \in 1..(chunk_idx - 1) :
                  IsRecordOf(all_metadata[i], frame_chunks[i])
            /\ Len(history) = Min(chunk_idx - 1, 5)
            /\ history = CaptionsOf(all_metadata,
                                    Max(1, chunk_idx - 5), chunk_idx - 1))

\* C3 witness: the second frame of chunk 2 failed to upload after the first
\* frame of that chunk had been uploaded.
C3_Witness ==
    /\ ChunkFailed
    /\ error = "FrameUploadError"
    /\ chunk_idx = 2
    /\ Len(image_infos) = 1
    /\ Len(all_metadata) = 1

\* C4 (as claimed): when a chunk has failed and the run is over, every other
\* chunk of the partition has its record in the document.
C4_FailedChunkSkipped ==
    ChunkFailed =>
        \A i \in 1..Len(frame_chunks) :
            i # chunk_idx =>
                \E r \in 1..Len(all_metadata) :
                    IsRecordOf(all_metadata[r], frame_chunks[i])

\* C5 (as claimed): the slot index floor(timestamp / T) of the sampled frames
\* is strictly increasing, so no two sampled frames share a slot.
C5_SlotsStrictlyIncreasing ==
    \A i, j \in 1..Len(saved_frames) :
        i < j => SlotOf(saved_frames[i].timestamp, interval)
                   < SlotOf(saved_frames[j].timestamp, interval)

\* C6 (as claimed): once sampling has returned, every slot some decoded frame
\* falls in has exactly one sampled frame, the first decoded frame of it.
C6_OneFramePerPopulatedSlot ==
    (pc = "partition" /\ fps > 0) =>
        \A n \in 0..(frame_count - 1) :
            LET k     == SlotOf(CurrentTime(n, fps), interval)
                inK   == {i \in 1..Len(saved_frames) :
                            SlotOf(saved_frames[i].timestamp, interval) = k}
                first == CHOOSE m \in 0..n :
                            /\ SlotOf(CurrentTime(m, fps), interval) = k
                            /\ \A l \in 0..(m - 1) :
                                  SlotOf(CurrentTime(l, fps), interval) # k
            IN  /\ Cardinality(inK) = 1
                /\ \A i \in inK : saved_frames[i].frame_number = first

\* C7: for a positive chunk size C the chunks concatenate to the sampled
\* list; chunk k is frames [k*C, min((k+1)*C, total)), non-empty, of length
\* at most C, and only the last chunk may be shorter than C.
RECURSIVE Concat(_)
Concat(chunks) ==
    IF chunks = << >> THEN << >> ELSE Head(chunks) \o Concat(Tail(chunks))

C7_ChunkPartition ==
    (pc = "upload" \/ pc = "write") /\ chunk_size > 0 =>
        LET total == Len(saved_frames)
            n     == Len(frame_chunks)
        IN  /\ Concat(frame_chunks) = saved_frames
            /\ \A k \in 0..(n - 1) :
                  /\ frame_chunks[k + 1] =
                        [j \in 1..(Min((k + 1) * chunk_size, total) - k * chunk_size)
                            |-> saved_frames[k * chunk_size + j]]
                  /\ Len(frame_chunks[k + 1]) >= 1
                  /\ Len(frame_chunks[k + 1]) <= chunk_size
                  /\ (k + 1 < n => Len(frame_chunks[k + 1]) = chunk_size)

\* C7 witness: a partition with full chunks and a shorter last chunk.
C7_Witness ==
    /\ pc = "upload"
    /\ chunk_size = 2
    /\ Len(saved_frames) = 5
    /\ Len(frame_chunks) = 3
    /\ Len(frame_chunks[3]) = 1

\* C8 (as claimed): with a non-positive chunk size the partitioner raises;
\* the run never gets past the partition.
C8_NonPositiveRejected ==
    chunk_size <= 0 => pc \in {"extract", "partition", "raised"}

\* C9 (as claimed): a 10-second video sampled at interval 2 yields 5 frames,
\* one in each of the slots 0..4, and chunk size 2 gives chunks of sizes
\* 2, 2, 1.
C9_TenSecondVideo ==
    (fps > 0 /\ frame_count = 10 * fps /\ interval = 2 /\ pc # "extract") =>
        /\ [i \in 1..Len(saved_frames) |->
               SlotOf(saved_frames[i].timestamp, interval)] = << 0, 1, 2, 3, 4 >>
        /\ (chunk_size = 2 /\ pc = "upload" =>
               [k \in 1..Len(frame_chunks) |-> Len(frame_chunks[k])]
                   = << 2, 2, 1 >>)

\* C10 (as claimed): with an empty document the summarization capability is
\* not called and no report file is written.
C10_EmptyDocumentRejected ==
    all_metadata = << >> =>
        /\ summary_calls = 0
        /\ "report.md" \notin files
        /\ pc # "summarize"

\* The run is over: it finished or an exception left it.
RunEnded == pc \in {"raised", "finished"}

\* C11 (as claimed): every run that has ended has invoked the summarization
\* capability exactly once.
C11_ExactlyOncePerRun == RunEnded => summary_calls = 1

\* C11 (amended): the summarization capability is invoked at most once per
\* run, exactly once when the run has reached save_final_report, and then
\* every chunk has its record and no chunk is being processed.
C11_SummarizedOnceAfterAllChunks ==
    /\ summary_calls <= 1
    /\ summary_calls = 1 <=>
          \/ pc \in {"summarize", "finished"}
          \/ pc = "raised" /\ error = "SynthesisError"
    /\ summary_calls >= 1 =>
          /\ Len(all_metadata) = Len(frame_chunks)
          /\ \A i \in 1..Len(frame_chunks) :
                IsRecordOf(all_metadata[i], frame_chunks[i])
          /\ call = NoCall
          /\ image_infos = << >>
    /\ pc \in {"upload", "analyze"} => summary_calls = 0

\* C11 witness: the summarization call is in flight after three chunks.
C11_Witness ==
    pc = "summarize" /\ summary_calls = 1 /\ Len(all_metadata) = 3

\* C12 (as claimed): a metadata document that has been persisted holds the
\* records of all chunks of the partition, record i being that of chunk i,
\* whichever entry point wrote it.
C12_PersistedInChunkOrder ==
    "frames/metadata.json" \in files =>
        LET doc == IF pool.degree > 0 THEN pool.chunk_results ELSE all_metadata
        IN  /\ Len(doc) = Len(frame_chunks)
            /\ \A i \in 1..Len(doc) : IsRecordOf(doc[i], frame_chunks[i])

\* Files of the run in its result directory.
ResultContent == files \cap ResultFiles

\* C13 (as claimed): a run started from the handler ends with metadata and
\* report, with metadata and no report, or with nothing of the run left in
\* the result directory; without a saved metadata file the directory holds
\* no copied video, no metadata file and no report file.
C13_ThreeOutcomes ==
    pc \in {"stopped", "raised", "finished"} =>
        \/ "metadata.json" \in files
        \/ ResultContent = {}

\* C14 (as claimed): when no frame of the video can be read, the sampler
\* fails with a decode error and the run stops there: it never gets past the
\* sampler, writes or uploads no metadata document and asks for no report.
C14_UnopenableVideoAborts ==
    frame_count = 0 =>
        /\ pc \in {"extract", "raised"}
        /\ pc = "raised" => error = "DecodeError"
        /\ files = {}
        /\ blobs = {}
        /\ summary_calls = 0

\* C15 (as claimed): with a frame rate of zero extract_and_save_frames does
\* not raise; it returns a sampled sequence.
C15_ZeroRateDoesNotRaise ==
    fps = 0 => error # "ZeroDivisionError"

\* The metadata file of the run exists and holds the dump of all_metadata.
MetadataIntact ==
    /\ "metadata.json" \in files
    /\ metadata_json = [exists |-> TRUE, text |-> JsonDump(all_metadata)]

\* C16: whenever the summarization capability has been invoked, save_metadata
\* has completed and the metadata file is intact; a failed summarization
\* leaves no report file, and the step on which it fails changes neither the
\* set of files nor the metadata file.
C16_MetadataSurvivesSynthesisFailure ==
    /\ [](summary_calls > 0 => MetadataIntact)
    /\ [](error = "SynthesisError" => "report.md" \notin files)
    /\ [][pc = "summarize" /\ pc' = "raised" =>
              files' = files /\ metadata_json' = metadata_json]_vars

C16_Witness ==
    /\ pc = "raised"
    /\ error = "SynthesisError"
    /\ Len(all_metadata) >= 2
    /\ MetadataIntact

\* C17: the document handed to the summarizer has one record per record of
\* the metadata, in the same order, holding only the caption and, per frame,
\* only the timestamp, with the values of the original; the step that builds
\* it leaves the original metadata and the metadata file unchanged.
C17_SummaryInputRedacted ==
    /\ [](summary_calls > 0 =>
            /\ Len(summary_input) = Len(all_metadata)
            /\ \A i \in 1..Len(summary_input) :
                 /\ DOMAIN summary_input[i] = {"frames", "chunk_caption"}
                 /\ DOMAIN all_metadata[i] =
                        {"video_filename", "frames", "chunk_caption"}
                 /\ summary_input[i].chunk_caption = all_metadata[i].chunk_caption
                 /\ Len(summary_input[i].frames) = Len(all_metadata[i].frames)
                 /\ \A j \in 1..Len(summary_input[i].frames) :
                      /\ DOMAIN summary_input[i].frames[j] = {"timestamp"}
                      /\ DOMAIN all_metadata[i].frames[j] =
                             {"frame_number", "timestamp", "frame_url_with_sas"}
                      /\ summary_input[i].frames[j].timestamp =
                             all_metadata[i].frames[j].timestamp)
    /\ [][pc = "saved" =>
              all_metadata' = all_metadata /\ metadata_json' = metadata_json]_vars

C17_Witness ==
    /\ pc = "summarize"
    /\ Len(summary_input) >= 2
    /\ Len(summary_input[1].frames) >= 2
    /\ summary_input[1].chunk_caption # summary_input[2].chunk_caption

\* C18: what load_metadata reads from the file save_metadata wrote is the
\* saved document: the same records in the same order, every field with the
\* value it had.
C18_MetadataRoundTrip ==
    metadata_json.exists => load_metadata = all_metadata

C18_Witness ==
    /\ metadata_json.exists
    /\ Len(all_metadata) >= 2
    /\ \E j \in 1..Len(all_metadata[2].frames) :
          Len(all_metadata[2].frames[j].timestamp.fr) > 50
    /\ load_metadata = all_metadata

\* C19: while the analysis call of a chunk is in flight, it was given the
\* frames of that chunk, in the chunk's order, and every one of them is in
\* the object store; a run ended by a failed frame upload has no analysis
\* call for the chunk it failed in and no record of it; every record stored
\* holds the frames of its chunk in the chunk's order.
C19_UploadBeforeAnalysis ==
    /\ pc = "analyze" =>
          /\ call.chunk = chunk_idx
          /\ FrameNumbers(call.image_infos) = FrameNumbers(frame_chunks[chunk_idx])
          /\ \A j \in 1..Len(call.image_infos) : call.image_infos[j].url \in blobs
    /\ error = "FrameUploadError" =>
          /\ call = NoCall
          /\ Len(all_metadata) = chunk_idx - 1
    /\ \A i \in 1..Len(all_metadata) :
          /\ IsRecordOf(all_metadata[i], frame_chunks[i])
          /\ \A j \in 1..Len(all_metadata[i].frames) :
                all_metadata[i].frames[j].frame_url_with_sas \in blobs

C19_Witness ==
    /\ pc = "analyze"
    /\ chunk_idx = 2
    /\ Len(call.image_infos) = 3
    /\ Len(all_metadata) = 1

\* C20 (as claimed): in every record the frame numbers are strictly
\* increasing and are those of the chunk it was made from; every frame of a
\* record has a smaller frame number and a smaller slot than every frame of
\* the next record.
C20_RecordsOrderedByFrameAndSlot ==
    /\ \A i \in 1..Len(all_metadata) :
          /\ FrameNumbers(all_metadata[i].frames) = FrameNumbers(frame_chunks[i])
          /\ \A j, k \in 1..Len(all_metadata[i].frames) :
                j < k => all_metadata[i].frames[j].frame_number
                           < all_metadata[i].frames[k].frame_number
    /\ \A i \in 1..(Len(all_metadata) - 1) :
          \A j \in 1..Len(all_metadata[i].frames),
             k \in 1..Len(all_metadata[i + 1].frames) :
                /\ all_metadata[i].frames[j].frame_number
                     < all_metadata[i + 1].frames[k].frame_number
                /\ SlotOf(all_metadata[i].frames[j].timestamp, interval)
                     < SlotOf(all_metadata[i + 1].frames[k].timestamp, interval)

\* C21 (as claimed): the directories create_result_directory has returned
\* are pairwise distinct, one per run, and get_all_result_dirs lists them
\* all, the newest run first.
C21_OneDirectoryPerRun ==
    LET returned == results.returned
        n        == Len(returned)
    IN  /\ \A i, j \in 1..n : i < j => returned[i] # returned[j]
        /\ get_all_result_dirs = [i \in 1..n |-> returned[n + 1 - i]]

====
